---- MODULE Spec2Model ----
(***************************************************************************)
(* Model of tarpaulin's coverage execution engine: the ptrace state        *)
(* machine of src/statemachine/linux.rs (Data::start, init, wait, stop),   *)
(* the loop of collect_coverage that drives it and the launcher of         *)
(* src/lib.rs (run, launch_tarpaulin, get_test_coverage).                  *)
(*                                                                         *)
(* The operating system and the tracee are the environment: every result   *)
(* of waitpid, ptrace and fork is an input chosen with \E.                 *)
(***************************************************************************)
EXTENDS Integers, Sequences, FiniteSets, TLC

\* ------------------------------------------------------------------ bounds
\* Threads the tracee may have spawned and not yet reaped at one time.
MaxThreads == 2
\* Breakpoints are not hit again once the hits of all Traces sum to MaxHits.
MaxHits == 2
\* Number of test binaries the build produced (launch_tarpaulin).
NumTests == 1
\* Longest config.varargs and longest entry of it, in bytes.
MaxArgs == 2
MaxStrLen == 2
\* Most Traces in the TraceMap handed to the coveralls export.
MaxTraces == 2

\* ------------------------------------------------------------- option types
None == << >>
Some(x) == << x >>

\* --------------------------------------------------------------- constants
\* The Pid fork returned for the test executable: the tracee root thread.
TestPid == 1
\* Stands for the thread id of any thread the tracee spawned: the engine
\* only ever compares a thread id with parent.
SpawnedPid == 2

Signals == {"SIGTRAP", "SIGSTOP", "SIGSEGV", "SIGUSR1"}
PtraceEvents == {"CLONE", "FORK", "VFORK", "EXEC", "EXIT", "SECCOMP"}
ExitCodes == {0, 101}

\* nix::sys::wait::WaitStatus, every variant as one record shape.
WaitStatus(kind, pid, sig, event, code, core) ==
    [kind |-> kind, pid |-> pid, sig |-> sig, event |-> event, code |-> code,
     core |-> core]
StillAlive == WaitStatus("StillAlive", 0, "NONE", "NONE", 0, FALSE)
Stopped(pid, sig) == WaitStatus("Stopped", pid, sig, "NONE", 0, FALSE)
PtraceEvent(pid, sig, event) == WaitStatus("PtraceEvent", pid, sig, event, 0, FALSE)
Signaled(pid, sig, core) == WaitStatus("Signaled", pid, sig, "NONE", 0, core)
Exited(pid, code) == WaitStatus("Exited", pid, "NONE", "NONE", code, FALSE)
PtraceSyscall(pid) == WaitStatus("PtraceSyscall", pid, "NONE", "NONE", 0, FALSE)
WaitErr == WaitStatus("Err", 0, "NONE", "NONE", 0, FALSE)

\* TestState: the tag and, for End, the exit code it carries.
St(tag) == [tag |-> tag, code |-> 0]
End(ec) == [tag |-> "End", code |-> ec]
wait_state == St("Wait")
is_finished(s) == s.tag \in {"End", "Unrecoverable", "Abort"}

\* The error messages of linux.rs.
MsgInstrument == "Failed to instrument test executable"
MsgWait == "An error occurred while waiting for response from test"
MsgPtraceErr == "Error occurred when handling ptrace event"
MsgCoverageErr == "Error when collecting coverage"
MsgSigstop == "Error processing SIGSTOP"
MsgSegfault == "Error a segfault occured when executing test"
MsgSignaled == "Error attempting to handle tarpaulin being signaled"
MsgClone == "Error occurred upon test executable thread creation"
MsgPtraceUnexpected == "Unexpected ptrace event"
MsgUnexpectedStop == "Unexpected stop"
\* Messages printed to the user.
PrintPie == "ERROR: Tarpaulin cannot find code addresses check that pie is disabled"
PrintAbort == "Can't collect coverage data. Exiting"

\* The TraceMap generate_tracemap builds for the test binary: two Traces of
\* line 10 at different addresses, a Trace with no address, and a Trace that
\* resolved to the address of the first one.
Trace(line, address, hits) == [line |-> line, address |-> address, hits |-> hits]
GeneratedTraces ==
    << Trace(10, Some(16), 0), Trace(10, Some(32), 0),
       Trace(11, None, 0), Trace(12, Some(16), 0) >>
TraceAddrs == {16, 32}
\* Addresses where the test binary may hold a trap byte of its own.
NativeTrapAddrs == {16}
\* An address of the tracee no Trace maps to.
OtherAddrs == {48}
\* Values the instruction pointer register may hold at a SIGTRAP stop.
RipValues == {a + 1 : a \in TraceAddrs \cup OtherAddrs}

RECURSIVE SumHits(_)
SumHits(ts) == IF ts = << >> THEN 0 ELSE Head(ts).hits + SumHits(Tail(ts))

\* ------------------------------------------------------------------- state
VARIABLES
    config,         \* Config: the options the engine reads
    state,          \* TestState of the state machine
    wait,           \* Data.wait: the recent waitpid result
    current,        \* Data.current
    parent,         \* Data.parent: the tracee root thread
    breakpoints,    \* Data.breakpoints: address -> Breakpoint
    traces,         \* the TraceMap borrowed by Data
    error_message,  \* Data.error_message
    thread_count,   \* Data.thread_count
    force_disable_hit_count,  \* Data.force_disable_hit_count
    pc,             \* position in collect_coverage
    test_passed,    \* collect_coverage's local test_passed
    root,           \* tracee: the root thread is running, exiting or gone
    spawned,        \* tracee: spawned threads not yet reaped
    spawned_exiting,\* tracee: those of them whose exit event was delivered
    tracing,        \* tracee: the PTRACE_O_TRACE* options are set
    prev,           \* history: tag of the state the last step left
    conts,          \* history: continue_exec calls of the last step
    hit,            \* history: the Breakpoint::process call of the last step
    installs,       \* history: the Breakpoint::new calls of the last step
    killed,         \* history: thread_killed notifications of the last step
    out,            \* history: messages printed
    warnings,       \* history: times the multithreaded warning was printed
    one_shot_seen,  \* history: a known breakpoint was processed one-shot
    second_thread,  \* history: thread_count has reached 2
    run_pc,         \* position in run / launch_tarpaulin
    test_idx,       \* launch_tarpaulin: index of the test binary in comp.tests
    ignored,        \* get_test_coverage's ignored argument of the current call
    tp,             \* launch_tarpaulin's test_passed
    run_result,     \* what run returned
    not_run,        \* history: some get_test_coverage call returned None
    failed_run,     \* history: some test run returned test_passed = false
    varargs,        \* Config.varargs
    test,           \* execute_test's test: the path of the test binary
    argv,           \* the argument vector execve was called with
    envars,         \* the environment execve was called with
    exec_pc,        \* position in execute_test (the forked child)
    coverage_data,  \* export's coverage_data: the Traces of the TraceMap
    coveralls,      \* Config.coveralls
    ci_tool,        \* Config.ci_tool
    report_uri,     \* Config.report_uri
    report,         \* the CoverallsReport export sent
    export_result   \* what export returned

machine_vars ==
    << state, wait, current, parent, breakpoints, traces, error_message,
       thread_count, force_disable_hit_count >>
os_vars == << root, spawned, spawned_exiting, tracing >>
hist_vars ==
    << prev, conts, hit, installs, killed, out, warnings, one_shot_seen,
       second_thread >>
exec_vars == << varargs, test, argv, envars, exec_pc >>
export_vars ==
    << coverage_data, coveralls, ci_tool, report_uri, report, export_result >>
run_vars ==
    << run_pc, test_idx, ignored, tp, run_result, not_run, failed_run,
       exec_vars, export_vars >>
vars ==
    << config, machine_vars, pc, test_passed, os_vars, hist_vars, run_vars >>

\* A HashMap as a function; insert replaces the value of a present key.
EmptyMap == [x \in {} |-> 0]
\* Insert that files the value under the key after k.
InsertOffByOne(m, k, v) ==
    [x \in DOMAIN m \cup {k + 1} |-> IF x = k + 1 THEN v ELSE m[x]]
Insert(m, k, v) == [x \in DOMAIN m \cup {k} |-> IF x = k THEN v ELSE m[x]]

\* One Breakpoint::process call, as the history records it.
Hit(addr, thread, enable, tc, result, fresh) ==
    [known |-> TRUE, addr |-> addr, thread |-> thread, enable |-> enable,
     tc |-> tc, result |-> result, fresh |-> fresh]
NoHit == [known |-> FALSE, addr |-> 0, thread |-> 0, enable |-> FALSE,
          tc |-> 0, result |-> "none", fresh |-> FALSE]

\* ---------------------------------------------------------- the environment
\* Thread ids with a thread behind them.
Live == (IF root = "gone" THEN {} ELSE {TestPid})
        \cup (IF spawned > 0 THEN {SpawnedPid} ELSE {})
\* Threads that have not yet reported their exit event.
Running == (IF root = "running" THEN {TestPid} ELSE {})
           \cup (IF spawned > spawned_exiting THEN {SpawnedPid} ELSE {})
\* Threads that may report Exited: with PTRACE_O_TRACEEXIT set, those whose
\* exit event was delivered.
Exitable == IF tracing
            THEN (IF root = "exiting" THEN {TestPid} ELSE {})
                 \cup (IF spawned_exiting > 0 THEN {SpawnedPid} ELSE {})
            ELSE Live

\* continue_exec(pid, sig): ptrace(PTRACE_CONT) fails for a thread that is
\* gone and may fail for any other.
ContinueResults(pid) == IF pid \in Live THEN BOOLEAN ELSE {FALSE}
\* The same for the thread waitpid has just reported s for.
ContinueResultsAfter(s) ==
    IF s.kind \in {"Exited", "Signaled"} THEN {FALSE} ELSE ContinueResults(s.pid)
\* One continue_exec call as the history records it: ok is its result.
Cont(pid, sig, ok) == [pid |-> pid, sig |-> sig, ok |-> ok]

\* What waitpid may report.
OsStatuses ==
    {StillAlive, WaitErr}
    \cup {Stopped(c, s) : c \in Live, s \in Signals}
    \cup {PtraceSyscall(c) : c \in Live \cap {TestPid}}
    \cup {Signaled(c, "SIGTRAP", TRUE) : c \in Live \cap {TestPid}}
    \cup {Signaled(c, "SIGUSR1", FALSE) : c \in Live \cap {TestPid}}
    \cup {Exited(c, ec) : c \in Exitable, ec \in ExitCodes}
    \cup IF tracing
         THEN {PtraceEvent(c, "SIGTRAP", e) : c \in Running,
                                              e \in PtraceEvents \ {"CLONE"}}
              \cup {PtraceEvent(c, "SIGSTOP", "EXEC") : c \in Running}
              \cup {PtraceEvent(c, "SIGTRAP", "CLONE") : c \in
                       IF spawned < MaxThreads THEN Running ELSE {}}
         ELSE {}

\* The tracee once waitpid has reported s.
RootAfter(s) ==
    CASE s.pid = TestPid /\ s.kind \in {"Exited", "Signaled"} -> "gone"
      [] s.pid = TestPid /\ s.kind = "PtraceEvent" /\ s.event = "EXIT" -> "exiting"
      [] OTHER -> root
SpawnedAfter(s) ==
    CASE s.kind = "Signaled" -> 0
      [] s.pid = SpawnedPid /\ s.kind = "Exited" -> spawned - 1
      [] s.kind = "PtraceEvent" /\ s.event = "CLONE" -> spawned + 1
      [] OTHER -> spawned
SpawnedExitingAfter(s) ==
    CASE s.kind = "Signaled" -> 0
      [] s.pid = SpawnedPid /\ s.kind = "Exited" /\ spawned_exiting > 0 ->
            spawned_exiting - 1
      [] s.pid = SpawnedPid /\ s.kind = "PtraceEvent" /\ s.event = "EXIT" ->
            spawned_exiting + 1
      [] OTHER -> spawned_exiting
Delivered(s) ==
    /\ root' = RootAfter(s)
    /\ spawned' = SpawnedAfter(s)
    /\ spawned_exiting' = SpawnedExitingAfter(s)

\* History of one step that printed nothing and hit no breakpoint.
Quiet(tag, cs) ==
    /\ prev' = tag
    /\ conts' = cs
    /\ hit' = NoHit
    /\ installs' = << >>
    /\ killed' = {}
    /\ UNCHANGED << out, warnings, one_shot_seen, second_thread >>

\* ------------------------------------------------------------------- Init
\* Data::new, with parent set by create_state_machine.
NewData ==
    /\ state' = St("Start")
    /\ wait' = StillAlive
    /\ current' = 0
    /\ parent' = TestPid
    /\ breakpoints' = EmptyMap
    /\ error_message' = None
    /\ thread_count' = 0
    /\ force_disable_hit_count' = config.count

InitData ==
    /\ state = St("Start")
    /\ wait = StillAlive
    /\ current = 0
    /\ parent = 0
    /\ breakpoints = EmptyMap
    /\ traces = << >>
    /\ error_message = None
    /\ thread_count = 0
    /\ force_disable_hit_count = FALSE
    /\ test_passed = FALSE
    /\ root = "gone"
    /\ spawned = 0
    /\ spawned_exiting = 0
    /\ tracing = FALSE
    /\ prev = "none"
    /\ conts = {}
    /\ hit = NoHit
    /\ installs = << >>
    /\ killed = {}
    /\ out = {}
    /\ warnings = 0
    /\ one_shot_seen = FALSE
    /\ second_thread = FALSE

\* No child has been forked to execute a test.
NoExec ==
    /\ varargs = << >>
    /\ test = << >>
    /\ argv = None
    /\ envars = << >>
    /\ exec_pc = "none"

\* export has not been called.
NoExport ==
    /\ coverage_data = << >>
    /\ coveralls = None
    /\ ci_tool = None
    /\ report_uri = None
    /\ report = None
    /\ export_result = "none"

\* One call of collect_coverage for a forked test executable.
Init ==
    /\ config \in [count : BOOLEAN, forward_signals : BOOLEAN,
                   verbose : {FALSE}, run_ignored : {FALSE}]
    /\ InitData
    /\ pc = "generate"
    /\ run_pc = "single"
    /\ test_idx = 1
    /\ ignored = FALSE
    /\ tp = TRUE
    /\ run_result = "none"
    /\ not_run = FALSE
    /\ failed_run = FALSE
    /\ NoExec
    /\ NoExport

\* ------------------------------------------------------- collect_coverage
\* generate_tracemap(..)? and create_state_machine.
Generate ==
    /\ pc = "generate"
    /\ \E ok \in BOOLEAN :
         IF ok
         THEN /\ pc' = "loop"
              /\ traces' = GeneratedTraces
              /\ NewData
              /\ test_passed' = FALSE
              /\ root' = "running"
              /\ spawned' = 0
              /\ spawned_exiting' = 0
              /\ tracing' = FALSE
              /\ prev' = "none"
              /\ conts' = {}
              /\ hit' = NoHit
              /\ installs' = << >>
              /\ killed' = {}
              /\ out' = {}
              /\ warnings' = 0
              /\ one_shot_seen' = FALSE
              /\ second_thread' = FALSE
         ELSE /\ pc' = "error"
              /\ UNCHANGED << machine_vars, test_passed, os_vars, hist_vars >>
    /\ UNCHANGED << config, run_vars >>

\* ------------------------------------------------------------ Breakpoint
\* Breakpoint {address, armed}; fired: some thread has hit it. The pending
\* set of a Breakpoint is empty outside on_hit and is not kept.
NewBreakpoint == [armed |-> TRUE, fired |-> FALSE]

\* What the ptrace calls inside Breakpoint::process may do.
ProcessResults == {"ok", "failed"}

\* on_hit(thread, addr, enable_refire): restore the original byte, rewind,
\* single-step, then re-arm iff enable_refire. A fresh hit is every hit of a
\* re-firing breakpoint and the first hit by any thread of a one-shot one.
process(bp, thread, enable, res) ==
    IF res = "ok"
    THEN [ok |-> TRUE, fresh |-> enable \/ ~bp.fired,
          bp |-> [armed |-> enable, fired |-> TRUE]]
    ELSE [ok |-> FALSE, fresh |-> FALSE, bp |-> bp]

\* thread_killed(thread): drops the per-thread pending state.
thread_killed(bp, thread) == bp

\* TraceMap::get_trace_mut(address): the index of the Trace found by address,
\* 0 when there is none.
get_trace_mut(ts, addr) ==
    IF \E i \in 1..Len(ts) : ts[i].address = Some(addr)
    THEN CHOOSE i \in 1..Len(ts) :
            /\ ts[i].address = Some(addr)
            /\ \A j \in 1..(i - 1) : ts[j].address # Some(addr)
    ELSE 0

\* ------------------------------------------------------------ Data::start
\* StartNext that gives up on every unexpected status.
StartNextNoRetry(s, cont_ok) ==
    CASE s.kind = "StillAlive" -> St("Start")
      [] s.kind = "Stopped" /\ s.sig = "SIGTRAP" -> St("Initialise")
      [] OTHER -> St("Unrecoverable")

StartNext(s, cont_ok) ==
    CASE s.kind = "StillAlive" -> St("Start")
      [] s.kind = "Stopped" /\ s.sig = "SIGTRAP" -> St("Initialise")
      [] s.kind = "Err" -> St("Unrecoverable")
      [] OTHER -> IF cont_ok THEN St("Start") ELSE St("Unrecoverable")

StartStep ==
    /\ pc = "loop"
    /\ state.tag = "Start"
    /\ \E s \in OsStatuses, cont_ok \in BOOLEAN :
         LET unexpected == s.kind \notin {"StillAlive", "Err"}
                           /\ ~(s.kind = "Stopped" /\ s.sig = "SIGTRAP")
         IN /\ cont_ok \in (IF unexpected THEN ContinueResultsAfter(s) ELSE {TRUE})
            /\ state' = StartNext(s, cont_ok)
            /\ IF s.kind = "Stopped" /\ s.sig = "SIGTRAP"
               THEN current' = s.pid /\ wait' = s
               ELSE UNCHANGED << current, wait >>
            /\ Delivered(s)
            /\ Quiet("Start", IF unexpected THEN {Cont(s.pid, None, cont_ok)} ELSE {})
    /\ UNCHANGED << config, parent, breakpoints, traces, error_message,
                    thread_count, force_disable_hit_count, pc, test_passed,
                    tracing, run_vars >>

\* ------------------------------------------------------------- Data::init
\* Results of Breakpoint::new: Ok, Err(EIO), Err(UnsupportedOperation) and
\* any other Err.
InstallOutcomes == {"Ok", "EIO", "Clash", "Err"}

RECURSIVE InstallAll(_, _, _, _)
\* InstallEIO without the break.
InstallEIONoBreak(ts, i, outc, acc) ==
    InstallAll(ts, i + 1, outc, [acc EXCEPT !.instrumented = FALSE])

\* Err(EIO) from Breakpoint::new: instrumented = false; break.
InstallEIO(ts, i, outc, acc) == [acc EXCEPT !.instrumented = FALSE]

\* InstallClash that treats the clash as every other Err.
InstallClashAsErr(ts, i, outc, acc) ==
    InstallAll(ts, i + 1, outc, [acc EXCEPT !.err = Some(MsgInstrument)])

\* Err(UnsupportedOperation) from Breakpoint::new: the address clash.
InstallClash(ts, i, outc, acc) == InstallAll(ts, i + 1, outc, acc)

\* The loop over self.traces.all_traces() from its i-th Trace on; outc[i] is
\* the result of Breakpoint::new for the i-th Trace. A trap byte is written
\* (Ok) only where none is yet, and an address that holds one clashes;
\* acc.trapped are the addresses where the test binary has one of its own.
InstallAll(ts, i, outc, acc) ==
    IF i > Len(ts) THEN acc
    ELSE IF ts[i].address = None THEN InstallAll(ts, i + 1, outc, acc)
    ELSE LET addr == ts[i].address[1]
             logged == [acc EXCEPT
                          !.log = Append(@, [addr |-> addr, res |-> outc[i]])]
             trapped == addr \in DOMAIN acc.bps \cup acc.trapped
         IN CASE outc[i] = "Ok" ->
                    InstallAll(ts, i + 1, outc,
                               [logged EXCEPT
                                  !.bps = Insert(@, addr, NewBreakpoint),
                                  !.feasible = @ /\ ~trapped])
              [] outc[i] = "EIO" -> InstallEIO(ts, i, outc, logged)
              [] outc[i] = "Clash" ->
                    InstallClash(ts, i, outc,
                                 [logged EXCEPT !.feasible = @ /\ trapped])
              [] OTHER ->
                    InstallAll(ts, i + 1, outc,
                               [logged EXCEPT !.err = Some(MsgInstrument)])

InitNext(instrumented, cont_ok) ==
    IF ~instrumented THEN St("Abort")
    ELSE IF cont_ok THEN wait_state
    ELSE St("Unrecoverable")

InitStep ==
    /\ pc = "loop"
    /\ state.tag = "Initialise"
    /\ \E trace_ok \in BOOLEAN,
          native \in SUBSET NativeTrapAddrs,
          outc \in [1..Len(traces) -> InstallOutcomes],
          cont_ok \in ContinueResults(parent) :
         LET r == InstallAll(traces, 1, outc,
                             [bps |-> breakpoints, err |-> error_message,
                              instrumented |-> TRUE, log |-> << >>,
                              trapped |-> native, feasible |-> TRUE])
         IN /\ r.feasible
            /\ tracing' = trace_ok
            /\ breakpoints' = r.bps
            /\ error_message' = r.err
            /\ installs' = r.log
            /\ out' = IF r.instrumented THEN out ELSE out \cup {PrintPie}
            /\ conts' = IF r.instrumented THEN {Cont(parent, None, cont_ok)} ELSE {}
            /\ state' = InitNext(r.instrumented, cont_ok)
    /\ prev' = "Initialise"
    /\ hit' = NoHit
    /\ killed' = {}
    /\ UNCHANGED << config, wait, current, parent, traces, thread_count,
                    force_disable_hit_count, pc, test_passed, root, spawned,
                    spawned_exiting, warnings, one_shot_seen, second_thread,
                    run_vars >>

\* -------------------------------------------------------------- Data::wait
WaitNext(s) ==
    CASE s.kind = "StillAlive" -> wait_state
      [] s.kind = "Err" -> St("Unrecoverable")
      [] OTHER -> St("Stopped")

\* wait when waitpid returns s.
WaitReturns(s) ==
    /\ wait' = IF s.kind = "Err" THEN wait ELSE s
    /\ state' = WaitNext(s)
    /\ error_message' = IF s.kind = "Err" THEN Some(MsgWait) ELSE error_message
    /\ Delivered(s)
    /\ Quiet("Wait", {})
    /\ UNCHANGED << config, current, parent, breakpoints, traces, thread_count,
                    force_disable_hit_count, pc, test_passed, tracing, run_vars >>

WaitStep ==
    /\ pc = "loop"
    /\ state.tag = "Wait"
    /\ \E s \in OsStatuses : WaitReturns(s)

\* SignalClass without the SIGSEGV arm.
SignalClassNoSegv(sig) ==
    CASE sig = "SIGTRAP" -> "trap"
      [] sig = "SIGSTOP" -> "sigstop"
      [] OTHER -> "other"

\* -------------------------------------------------------------- Data::stop
\* The arm of the match on self.wait a Stopped(_, sig) status takes.
SignalClass(sig) ==
    CASE sig = "SIGTRAP" -> "trap"
      [] sig = "SIGSTOP" -> "sigstop"
      [] sig = "SIGSEGV" -> "segv"
      [] OTHER -> "other"

StopGuard(kind) ==
    /\ pc = "loop"
    /\ state.tag = "Stopped"
    /\ wait.kind = kind

\* handle_ptrace_event: thread_count after the event.
ThreadCountAfter(tc, sig, event, data_ok) ==
    CASE sig = "SIGTRAP" /\ event = "CLONE" /\ data_ok -> tc + 1
      [] sig = "SIGTRAP" /\ event = "EXIT" -> tc - 1
      [] OTHER -> tc

\* handle_ptrace_event and the match on its result in stop: call_ok is the
\* result of the continue_exec or detach_child the arm makes.
PtraceEventNext(sig, event, data_ok, call_ok) ==
    CASE sig # "SIGTRAP" ->
            [state |-> St("Unrecoverable"), msg |-> Some(MsgPtraceUnexpected)]
      [] sig = "SIGTRAP" /\ event = "CLONE" /\ ~data_ok ->
            [state |-> St("Unrecoverable"), msg |-> Some(MsgClone)]
      [] sig = "SIGTRAP" /\ event \in {"CLONE", "FORK", "VFORK", "EXEC", "EXIT"}
         /\ ~(event = "CLONE" /\ ~data_ok) ->
            IF call_ok
            THEN [state |-> wait_state, msg |-> None]
            ELSE [state |-> St("Unrecoverable"), msg |-> Some(MsgPtraceErr)]
      [] OTHER -> [state |-> St("Unrecoverable"), msg |-> None]

StopPtraceEvent ==
    /\ StopGuard("PtraceEvent")
    /\ \E data_ok \in BOOLEAN, call_ok \in ContinueResults(wait.pid) :
         LET r == PtraceEventNext(wait.sig, wait.event, data_ok, call_ok)
             continues == wait.sig = "SIGTRAP"
                          /\ \/ wait.event \in {"FORK", "VFORK", "EXIT"}
                             \/ wait.event = "CLONE" /\ data_ok
         IN /\ data_ok \/ wait.event = "CLONE"
            /\ state' = r.state
            /\ error_message' = IF r.msg = None THEN error_message ELSE r.msg
            /\ thread_count' = ThreadCountAfter(thread_count, wait.sig, wait.event, data_ok)
            /\ conts' = IF continues THEN {Cont(wait.pid, None, call_ok)} ELSE {}
            /\ second_thread' = (second_thread \/ thread_count' >= 2)
    /\ prev' = "Stopped"
    /\ hit' = NoHit
    /\ installs' = << >>
    /\ killed' = {}
    /\ UNCHANGED << config, wait, current, parent, breakpoints, traces,
                    force_disable_hit_count, pc, test_passed, os_vars,
                    out, warnings, one_shot_seen, run_vars >>

\* Enable with the thread bound off by one.
EnableOffByOne(count, tc) == count /\ tc < 3

\* Enable without config.count.
EnableThreadsOnly(count, tc) == tc < 2

\* Enable without the thread bound.
EnableCountOnly(count, tc) == count

\* collect_coverage_data: enable, the reenable argument of Breakpoint::process.
Enable(count, tc) == count /\ tc < 2

\* WarnNow without the force_disable_hit_count flag.
WarnAlways(enable, force) == ~enable

\* collect_coverage_data: whether the multithreaded warning is printed.
WarnNow(enable, force) == ~enable /\ force

\* HitsAfter that counts every processed hit, fresh or not.
HitsAfterAlways(hits, updated) == hits + 1

\* HitsAfter that stores the result of the hit in place of adding it.
HitsReset(hits, updated) == IF updated THEN hits + 1 ELSE 0

\* collect_coverage_data: the hits of the Trace found at the breakpoint.
HitsAfter(hits, updated) == IF updated THEN hits + 1 ELSE hits

\* TracesAfter that updates every Trace in place of the one found by address.
TracesAfterAll(ts, rip, updated) ==
    [i \in DOMAIN ts |-> [ts[i] EXCEPT !.hits = HitsAfter(@, updated)]]

\* collect_coverage_data: the TraceMap after a hit at address rip.
TracesAfter(ts, rip, updated) ==
    LET i == get_trace_mut(ts, rip)
    IN IF i = 0 THEN ts
       ELSE [ts EXCEPT ![i].hits = HitsAfter(@, updated)]

\* CoverageNext that drops the Err of collect_coverage_data.
CoverageNextIgnoreErr(ok) == wait_state

\* The result of collect_coverage_data as stop maps it.
CoverageNext(ok) == IF ok THEN wait_state ELSE St("Unrecoverable")

\* Stopped(c, SIGTRAP): rip_res is what current_instruction_pointer returned,
\* res what the ptrace calls of Breakpoint::process did, cont_ok the result
\* of the continue_exec made when the breakpoint was not processed.
StopTrap ==
    /\ StopGuard("Stopped")
    /\ SignalClass(wait.sig) = "trap"
    /\ current' = wait.pid
    /\ \E rip_res \in {Some(r) : r \in RipValues} \cup {None},
          res \in ProcessResults,
          cont_ok \in ContinueResults(wait.pid) :
         LET rip == rip_res[1] - 1
             known == rip_res # None /\ rip \in DOMAIN breakpoints
         IN IF known
            THEN LET enable == Enable(config.count, thread_count)
                     warn == WarnNow(enable, force_disable_hit_count)
                     r == process(breakpoints[rip], wait.pid, enable, res)
                 IN /\ r.fresh => SumHits(traces) < MaxHits
                    /\ breakpoints' = [breakpoints EXCEPT ![rip] = r.bp]
                    /\ force_disable_hit_count' =
                         IF warn THEN FALSE ELSE force_disable_hit_count
                    /\ warnings' = IF warn THEN warnings + 1 ELSE warnings
                    /\ one_shot_seen' = (one_shot_seen \/ ~enable)
                    /\ traces' = TracesAfter(traces, rip, r.fresh)
                    /\ hit' = Hit(rip, wait.pid, enable, thread_count, res, r.fresh)
                    /\ conts' = IF r.ok THEN {}
                                ELSE {Cont(wait.pid, None, cont_ok)}
                    /\ state' = CoverageNext(r.ok \/ cont_ok)
                    /\ error_message' = IF r.ok \/ cont_ok THEN error_message
                                        ELSE Some(MsgCoverageErr)
            ELSE /\ res = "ok"
                 /\ conts' = {Cont(wait.pid, None, cont_ok)}
                 /\ state' = CoverageNext(cont_ok)
                 /\ error_message' = IF cont_ok THEN error_message
                                     ELSE Some(MsgCoverageErr)
                 /\ hit' = NoHit
                 /\ UNCHANGED << breakpoints, force_disable_hit_count, warnings,
                                 one_shot_seen, traces >>
    /\ prev' = "Stopped"
    /\ installs' = << >>
    /\ killed' = {}
    /\ UNCHANGED << config, wait, parent, thread_count, pc, test_passed,
                    os_vars, out, second_thread, run_vars >>

\* Stopped(child, SIGSTOP).
SigstopNext(cont_ok) == IF cont_ok THEN wait_state ELSE St("Unrecoverable")

StopSigstop ==
    /\ StopGuard("Stopped")
    /\ SignalClass(wait.sig) = "sigstop"
    /\ \E cont_ok \in ContinueResults(wait.pid) :
         /\ state' = SigstopNext(cont_ok)
         /\ error_message' = IF cont_ok THEN error_message ELSE Some(MsgSigstop)
         /\ Quiet("Stopped", {Cont(wait.pid, None, cont_ok)})
    /\ UNCHANGED << config, wait, current, parent, breakpoints, traces,
                    thread_count, force_disable_hit_count, pc, test_passed,
                    os_vars, run_vars >>

\* SegvNext that gives up as a failed instrumentation does.
SegvNextAbort == St("Abort")

\* Stopped(_, SIGSEGV).
SegvNext == St("Unrecoverable")

StopSegv ==
    /\ StopGuard("Stopped")
    /\ SignalClass(wait.sig) = "segv"
    /\ error_message' = Some(MsgSegfault)
    /\ state' = SegvNext
    /\ Quiet("Stopped", {})
    /\ UNCHANGED << config, wait, current, parent, breakpoints, traces,
                    thread_count, force_disable_hit_count, pc, test_passed,
                    os_vars, run_vars >>

\* ForwardedSignal that forwards whatever the configuration says.
ForwardedSignalAlways(forward_signals, sig) == Some(sig)

\* Stopped(c, s): the signal handed to continue_exec.
ForwardedSignal(forward_signals, sig) == IF forward_signals THEN Some(sig) ELSE None

StopSignal ==
    /\ StopGuard("Stopped")
    /\ SignalClass(wait.sig) = "other"
    /\ state' = wait_state
    /\ \E cont_ok \in ContinueResults(wait.pid) :
         Quiet("Stopped",
               {Cont(wait.pid, ForwardedSignal(config.forward_signals, wait.sig),
                     cont_ok)})
    /\ UNCHANGED << config, wait, current, parent, breakpoints, traces,
                    error_message, thread_count, force_disable_hit_count, pc,
                    test_passed, os_vars, run_vars >>

\* handle_signaled and the match on its result in stop.
SignaledNext(s, cont_ok) ==
    IF s.sig = "SIGTRAP" /\ s.core
    THEN IF cont_ok
         THEN [state |-> wait_state, msg |-> None]
         ELSE [state |-> St("Unrecoverable"), msg |-> Some(MsgSignaled)]
    ELSE [state |-> St("Unrecoverable"), msg |-> Some(MsgUnexpectedStop)]

StopSignaled ==
    /\ StopGuard("Signaled")
    /\ \E cont_ok \in ContinueResults(wait.pid) :
         LET r == SignaledNext(wait, cont_ok)
         IN /\ state' = r.state
            /\ error_message' = IF r.msg = None THEN error_message ELSE r.msg
            /\ Quiet("Stopped", IF wait.sig = "SIGTRAP" /\ wait.core
                                THEN {Cont(wait.pid, None, cont_ok)} ELSE {})
    /\ UNCHANGED << config, wait, current, parent, breakpoints, traces,
                    thread_count, force_disable_hit_count, pc, test_passed,
                    os_vars, run_vars >>

\* ExitedNext that drops the exit code.
ExitedNextZero(child, root_thread, ec) ==
    IF child = root_thread THEN End(0) ELSE wait_state

\* ExitedNext that never ends the run.
ExitedNextNeverEnd(child, root_thread, ec) == wait_state

\* ExitedNext without the comparison of child with parent.
ExitedNextAnyChild(child, root_thread, ec) == End(ec)

\* Exited(child, ec): the state stop returns.
ExitedNext(child, root_thread, ec) ==
    IF child = root_thread THEN End(ec) ELSE wait_state

StopExited ==
    /\ StopGuard("Exited")
    /\ breakpoints' = [a \in DOMAIN breakpoints |->
                         thread_killed(breakpoints[a], wait.pid)]
    /\ state' = ExitedNext(wait.pid, parent, wait.code)
    /\ prev' = "Stopped"
    /\ \E cont_ok \in ContinueResults(parent) :
         conts' = IF wait.pid = parent THEN {}
                  ELSE {Cont(parent, None, cont_ok)}
    /\ hit' = NoHit
    /\ installs' = << >>
    /\ killed' = {[addr |-> a, thread |-> wait.pid] : a \in DOMAIN breakpoints}
    /\ UNCHANGED << out, warnings, one_shot_seen, second_thread >>
    /\ UNCHANGED << config, wait, current, parent, traces, error_message,
                    thread_count, force_disable_hit_count, pc, test_passed,
                    os_vars, run_vars >>

\* Any other wait status.
StopOther ==
    /\ pc = "loop"
    /\ state.tag = "Stopped"
    /\ wait.kind \notin {"PtraceEvent", "Stopped", "Signaled", "Exited"}
    /\ state' = St("Unrecoverable")
    /\ Quiet("Stopped", {})
    /\ UNCHANGED << config, wait, current, parent, breakpoints, traces,
                    error_message, thread_count, force_disable_hit_count, pc,
                    test_passed, os_vars, run_vars >>

\* ----------------------------------------- collect_coverage, after the loop
\* test_passed as the loop sets it when the state is finished.
TestPassed(s) == s.tag = "End" /\ s.code = 0

Finish ==
    /\ pc = "loop"
    /\ is_finished(state)
    /\ test_passed' = TestPassed(state)
    /\ IF state = St("Abort")
       THEN pc' = "exited" /\ out' = out \cup {PrintAbort}
       ELSE pc' = "returned" /\ out' = out
    /\ UNCHANGED << config, machine_vars, os_vars, prev, conts, hit, installs,
                    killed, warnings, one_shot_seen, second_thread, run_vars >>

Next ==
    \/ Generate
    \/ StartStep
    \/ InitStep
    \/ WaitStep
    \/ StopPtraceEvent
    \/ StopTrap
    \/ StopSigstop
    \/ StopSegv
    \/ StopSignal
    \/ StopSignaled
    \/ StopExited
    \/ StopOther
    \/ Finish

Spec == Init /\ [][Next]_vars

\* waitpid returns the exit status of the tracee root thread.
RootExitDelivered ==
    /\ pc = "loop"
    /\ state.tag = "Wait"
    /\ TestPid \in Exitable
    /\ \E ec \in ExitCodes : WaitReturns(Exited(TestPid, ec))

\* A step of the loop of collect_coverage that does not poll waitpid: init,
\* stop, or leaving the loop.
LoopStep ==
    \/ InitStep
    \/ StopPtraceEvent
    \/ StopTrap
    \/ StopSigstop
    \/ StopSegv
    \/ StopSignal
    \/ StopSignaled
    \/ StopExited
    \/ StopOther
    \/ Finish

\* One call of collect_coverage with hit counting and signal forwarding off.
InitLive ==
    /\ Init
    /\ ~config.count
    /\ ~config.forward_signals

\* The loop of collect_coverage keeps stepping, and an exit status of the
\* root thread that is due is eventually returned by waitpid; nothing else
\* is asked of waitpid.
SpecLive ==
    /\ InitLive
    /\ [][Next]_vars
    /\ WF_vars(LoopStep)
    /\ SF_vars(RootExitDelivered)

\* ------------------------------------------------- run, launch_tarpaulin
\* run called with a Config: nothing is built or traced yet.
InitRun ==
    /\ config \in [count : {FALSE}, forward_signals : {FALSE},
                   verbose : {FALSE}, run_ignored : BOOLEAN]
    /\ InitData
    /\ pc = "idle"
    /\ run_pc = "launch"
    /\ test_idx = 1
    /\ ignored = FALSE
    /\ tp = TRUE
    /\ run_result = "none"
    /\ not_run = FALSE
    /\ failed_run = FALSE
    /\ NoExec
    /\ NoExport

\* launch_tarpaulin up to the match on compilation: the workspace, the
\* package spec and ops::compile may each fail.
Compile ==
    /\ run_pc = "launch"
    /\ \E ok \in BOOLEAN :
         IF ok
         THEN run_pc' = "tests" /\ run_result' = run_result
         ELSE run_pc' = "done" /\ run_result' = "Err"
    /\ tp' = TRUE
    /\ UNCHANGED << config, machine_vars, pc, test_passed, os_vars, hist_vars,
                    test_idx, ignored, not_run, failed_run, exec_vars,
                    export_vars >>

\* The loop of launch_tarpaulin moves on: the same binary with ignored = true
\* when config.run_ignored, else the next binary of comp.tests.
Advance ==
    IF ~ignored /\ config.run_ignored
    THEN ignored' = TRUE /\ test_idx' = test_idx
    ELSE ignored' = FALSE /\ test_idx' = test_idx + 1

\* get_test_coverage up to the call of collect_coverage: None when the test
\* binary does not exist or fork fails.
GetTestCoverage ==
    /\ run_pc = "tests"
    /\ test_idx <= NumTests
    /\ \E exists \in BOOLEAN, fork_ok \in BOOLEAN :
         IF exists /\ fork_ok
         THEN /\ run_pc' = "collecting"
              /\ pc' = "generate"
              /\ UNCHANGED << test_idx, ignored, not_run >>
         ELSE /\ not_run' = TRUE
              /\ Advance
              /\ UNCHANGED << run_pc, pc >>
    /\ UNCHANGED << config, machine_vars, test_passed, os_vars, hist_vars, tp,
                    run_result, failed_run, exec_vars, export_vars >>

\* The locals of collect_coverage (the state machine, its Data, the TraceMap
\* once merged) are dropped when it has ended.
DropData ==
    /\ state' = St("Start")
    /\ wait' = StillAlive
    /\ current' = 0
    /\ parent' = 0
    /\ breakpoints' = EmptyMap
    /\ traces' = << >>
    /\ error_message' = None
    /\ thread_count' = 0
    /\ force_disable_hit_count' = FALSE
    /\ test_passed' = FALSE
    /\ root' = "gone"
    /\ spawned' = 0
    /\ spawned_exiting' = 0
    /\ tracing' = FALSE
    /\ prev' = "none"
    /\ conts' = {}
    /\ hit' = NoHit
    /\ installs' = << >>
    /\ killed' = {}
    /\ out' = {}
    /\ warnings' = 0
    /\ one_shot_seen' = FALSE
    /\ second_thread' = FALSE

\* launch_tarpaulin's test_passed after a get_test_coverage result.
TestsPassedAfter(all_passed, returned, passed) ==
    IF returned THEN all_passed /\ passed ELSE all_passed

\* collect_coverage has ended: get_test_coverage maps Err to None,
\* launch_tarpaulin merges a Some and ands test_passed; std::process::exit(1)
\* ends the engine.
AfterCoverage ==
    /\ run_pc = "collecting"
    /\ pc \in {"returned", "error", "exited"}
    /\ pc' = "idle"
    /\ IF pc = "exited"
       THEN /\ run_pc' = "done"
            /\ run_result' = "Exit1"
            /\ UNCHANGED << test_idx, ignored, tp, not_run, failed_run >>
       ELSE /\ run_pc' = "tests"
            /\ tp' = TestsPassedAfter(tp, pc = "returned", test_passed)
            /\ not_run' = (not_run \/ pc = "error")
            /\ failed_run' = (failed_run \/ (pc = "returned" /\ ~test_passed))
            /\ Advance
            /\ UNCHANGED run_result
    /\ DropData
    /\ UNCHANGED << config, exec_vars, export_vars >>

\* run: Ok(()) when launch_tarpaulin returned Ok with tp, else Err(-1).
RunResult(passed) == IF passed THEN "Ok" ELSE "Err"

RunReturn ==
    /\ run_pc = "tests"
    /\ test_idx > NumTests
    /\ run_pc' = "done"
    /\ run_result' = RunResult(tp)
    /\ UNCHANGED << config, machine_vars, pc, test_passed, os_vars, hist_vars,
                    test_idx, ignored, tp, not_run, failed_run, exec_vars,
                    export_vars >>

NextRun ==
    \/ Compile
    \/ GetTestCoverage
    \/ AfterCoverage
    \/ RunReturn
    \/ Generate
    \/ StartStep
    \/ InitStep
    \/ WaitStep
    \/ StopPtraceEvent
    \/ StopTrap
    \/ StopSigstop
    \/ StopSegv
    \/ StopSignal
    \/ StopSignaled
    \/ StopExited
    \/ StopOther
    \/ Finish

SpecRun == InitRun /\ [][NextRun]_vars

\* ------------------------------------------------------------ execute_test
\* Strings are sequences of bytes: 0 is NUL, 120 is the letter x.
Bytes == {0, 120}
SeqsUpTo(S, n) == UNION {[1..k -> S] : k \in 0..n}
Strings == SeqsUpTo(Bytes, MaxStrLen)
\* The path of a test binary that exists: "/t".
TestPaths == {<< 47, 116 >>}
\* "--ignored" and "--quiet".
IgnoredFlag == << 45, 45, 105, 103, 110, 111, 114, 101, 100 >>
QuietFlag == << 45, 45, 113, 117, 105, 101, 116 >>
EnvTestThreads == "RUST_TEST_THREADS=1"
EnvBacktrace == "RUST_BACKTRACE=1"
\* env::vars() of the engine, as key=value strings.
InheritedEnv == << "HOME=/root" >>

\* CString::new(bytes): Err when bytes holds a NUL byte.
CStringNew(bytes) ==
    IF \E i \in 1..Len(bytes) : bytes[i] = 0 THEN None ELSE Some(bytes)
\* Result::unwrap_or_default for a CString: the empty CString on Err.
unwrap_or_default(r) == IF r = None THEN << >> ELSE r[1]

\* execute_test: the argv handed to execve.
Argv(exec_path, ign, verbose, va) ==
    (IF ign THEN << exec_path, IgnoredFlag >> ELSE << exec_path >>)
    \o (IF verbose THEN << >> ELSE << QuietFlag >>)
    \o [i \in 1..Len(va) |-> unwrap_or_default(CStringNew(va[i]))]

\* execute_test: the environment handed to execve.
Envars(verbose, inherited) ==
    << EnvTestThreads >> \o inherited
    \o (IF verbose THEN << EnvBacktrace >> ELSE << >>)

\* The forked child: request_trace may fail (expect panics) and so may execve
\* (unwrap panics); else the test binary runs with argv and envars.
ExecuteTest ==
    /\ exec_pc = "child"
    /\ \E trace_ok \in BOOLEAN, exec_ok \in BOOLEAN :
         IF ~trace_ok
         THEN /\ exec_ok
              /\ exec_pc' = "panicked"
              /\ UNCHANGED << argv, envars >>
         ELSE /\ argv' = Some(Argv(test, ignored, config.verbose, varargs))
              /\ envars' = Envars(config.verbose, InheritedEnv)
              /\ exec_pc' = IF exec_ok THEN "executed" ELSE "panicked"
    /\ UNCHANGED << config, machine_vars, pc, test_passed, os_vars, hist_vars,
                    run_pc, test_idx, ignored, tp, run_result, not_run,
                    failed_run, varargs, test, export_vars >>

\* get_test_coverage has forked: the child is about to call execute_test with
\* the Config and the ignored argument launch_tarpaulin passed.
InitExec ==
    /\ config \in [count : {FALSE}, forward_signals : {FALSE},
                   verbose : BOOLEAN, run_ignored : BOOLEAN]
    /\ InitData
    /\ pc = "idle"
    /\ run_pc = "forked"
    /\ test_idx = 1
    /\ ignored \in (IF config.run_ignored THEN BOOLEAN ELSE {FALSE})
    /\ tp = TRUE
    /\ run_result = "none"
    /\ not_run = FALSE
    /\ failed_run = FALSE
    /\ varargs \in SeqsUpTo(Strings, MaxArgs)
    /\ test \in TestPaths
    /\ argv = None
    /\ envars = << >>
    /\ exec_pc = "child"
    /\ NoExport

NextExec == ExecuteTest

SpecExec == InitExec /\ [][NextExec]_vars

\* ------------------------------------------------------ coveralls::export
\* CoverageStat: Line(hits), or a statistic the export does not support.
LineStat(hits) == [kind |-> "Line", hits |-> hits]
BranchStat == [kind |-> "Branch", hits |-> 0]
\* A Trace as export reads it: its file, line and stats. Traces of one file
\* and line differ in their address, which export does not read.
CovTrace(file, line, stats) == [file |-> file, line |-> line, stats |-> stats]
CovFiles == {"a.rs", "b.rs"}
CovLines == {1, 2}
CovHits == {0, 1, 2}
CovTraces ==
    {CovTrace(f, l, st) : f \in CovFiles, l \in CovLines,
                          st \in {LineStat(h) : h \in CovHits} \cup {BranchStat}}

\* TraceMap::files(): the files that have Traces.
files(data) == {data[i].file : i \in 1..Len(data)}

\* Traces in ascending line order, Traces of one line in the order they had.
RECURSIVE SortByLine(_)
SortByLine(ts) ==
    IF ts = << >> THEN << >>
    ELSE LET m == CHOOSE l \in {ts[i].line : i \in 1..Len(ts)} :
                     \A i \in 1..Len(ts) : l <= ts[i].line
         IN SelectSeq(ts, LAMBDA t : t.line = m)
            \o SortByLine(SelectSeq(ts, LAMBDA t : t.line # m))

\* TraceMap::get_child_traces(file): the Traces of the file in ascending line
\* order.
get_child_traces(data, file) ==
    SortByLine(SelectSeq(data, LAMBDA t : t.file = file))

\* The casts `as usize` of a u64: usize has 64 bits on the x86_64 target.
AsUsize(x) == x

\* LinesAfter that adds the hits to the entry of the line.
LinesAfterSum(lines, c) ==
    IF c.stats.kind = "Line"
    THEN Insert(lines, AsUsize(c.line),
                (IF AsUsize(c.line) \in DOMAIN lines
                 THEN lines[AsUsize(c.line)] ELSE 0) + AsUsize(c.stats.hits))
    ELSE lines

\* export: the lines map after the match on c.stats for the Trace c.
LinesAfter(lines, c) ==
    IF c.stats.kind = "Line"
    THEN Insert(lines, AsUsize(c.line), AsUsize(c.stats.hits))
    ELSE lines

\* export: the loop over fcov from its i-th Trace on.
RECURSIVE LinesOf(_, _, _)
LinesOf(fcov, i, lines) ==
    IF i > Len(fcov) THEN lines
    ELSE LinesOf(fcov, i + 1, LinesAfter(lines, fcov[i]))

\* export: the Identity of the report.
IdentityOf(key, service) ==
    IF service # None
    THEN [kind |-> "ServiceToken", service_name |-> service[1],
          service_job_id |-> key]
    ELSE [kind |-> "RepoToken", service_name |-> "", service_job_id |-> key]

ErrNoKey == "No coveralls key specified."
ErrSend == "Coveralls send failed."

\* export(coverage_data, config): source_ok[f] is whether Source::new read the
\* file f, git_ok whether get_git_info succeeded, send_ok the result of the
\* send.
Export ==
    /\ export_result = "none"
    /\ IF coveralls = None
       THEN /\ export_result' = ErrNoKey
            /\ report' = report
       ELSE \E source_ok \in [files(coverage_data) -> BOOLEAN],
               git_ok \in BOOLEAN, send_ok \in BOOLEAN :
              /\ report' =
                   Some([id |-> IdentityOf(coveralls[1], ci_tool),
                         sources |->
                           [f \in {g \in files(coverage_data) : source_ok[g]} |->
                              LinesOf(get_child_traces(coverage_data, f), 1,
                                      EmptyMap)],
                         git |-> git_ok,
                         endpoint |-> report_uri])
              /\ export_result' = IF send_ok THEN "Ok" ELSE ErrSend
    /\ UNCHANGED << config, machine_vars, pc, test_passed, os_vars, hist_vars,
                    run_pc, test_idx, ignored, tp, run_result, not_run,
                    failed_run, exec_vars, coverage_data, coveralls, ci_tool,
                    report_uri >>

\* One call of export with the TraceMap and the Config of a finished run.
InitExport ==
    /\ config \in [count : {FALSE}, forward_signals : {FALSE},
                   verbose : {FALSE}, run_ignored : {FALSE}]
    /\ InitData
    /\ pc = "idle"
    /\ run_pc = "report"
    /\ test_idx = 1
    /\ ignored = FALSE
    /\ tp = TRUE
    /\ run_result = "none"
    /\ not_run = FALSE
    /\ failed_run = FALSE
    /\ NoExec
    /\ coverage_data \in SeqsUpTo(CovTraces, MaxTraces)
    /\ coveralls \in {None, Some("key")}
    /\ ci_tool \in {None, Some("travis-ci")}
    /\ report_uri \in {None, Some("uri")}
    /\ report = None
    /\ export_result = "none"

NextExport == Export

SpecExport == InitExport /\ [][NextExport]_vars

\* ================================================================ claims
TraceIdx == 1..Len(traces)
HitsAt(addr) == traces[get_trace_mut(traces, addr)].hits

\* C1: a returned collect_coverage has test_passed true iff the state machine
\* ended in End(0), and End(code) only results from stop handling
\* Exited(parent, code).
C1_ExitCodeFidelity ==
    /\ pc = "returned" =>
         (test_passed <=> (state.tag = "End" /\ state.code = 0))
    /\ state.tag = "End" =>
         (prev = "Stopped" /\ wait = Exited(parent, state.code))
    /\ (pc = "returned" /\ state.tag = "Unrecoverable") => ~test_passed
    /\ (pc = "returned" /\ state.tag = "End" /\ state.code # 0) => ~test_passed

C1_Witness ==
    pc = "returned" /\ test_passed /\ state = End(0) /\ spawned > 0

\* C2 (as claimed): thread_count is never negative.
C2_ThreadCountFloor == thread_count >= 0

\* C3: a known breakpoint is processed with re-fire enabled iff config.count
\* and thread_count <= 1 at the hit.
C3_RefireIffCountAndFewThreads ==
    hit.known => (hit.enable <=> (config.count /\ hit.tc <= 1))

C3_Witness ==
    hit.known /\ config.count /\ hit.tc = 2 /\ ~hit.enable /\ hit.result = "ok"

\* C4 (as claimed): with count, once thread_count has reached 2, no hit on an
\* address that already fired changes the hits of any Trace.
C4_Original ==
    [][(/\ state.tag = "Stopped"
        /\ config.count
        /\ second_thread
        /\ hit'.known
        /\ breakpoints[hit'.addr].fired) => traces' = traces]_vars

\* C4 (amended): with count, a hit processed while thread_count >= 2 on an
\* address that already fired leaves the hits of every Trace unchanged.
C4_NoCountWhileMultithreaded ==
    [][(/\ state.tag = "Stopped"
        /\ config.count
        /\ thread_count >= 2
        /\ hit'.known
        /\ breakpoints[hit'.addr].fired) => traces' = traces]_vars

C4_Witness ==
    /\ hit.known /\ config.count /\ hit.tc >= 2
    /\ hit.result = "ok" /\ ~hit.fresh
    /\ HitsAt(hit.addr) = 1

\* C5: the multithreaded warning is printed at most once, only with
\* config.count, and exactly from the first known breakpoint processed
\* one-shot on.
C5_WarningOnce ==
    /\ warnings <= 1
    /\ ~config.count => warnings = 0
    /\ config.count => (warnings = 1 <=> one_shot_seen)
    /\ (hit.known /\ config.count /\ hit.tc >= 2) => warnings = 1

C5_Witness ==
    /\ warnings = 1 /\ hit.known /\ ~hit.enable /\ ~hit.fresh
    /\ hit.result = "ok"

\* C6: no step of the state machine lowers the hits of a Trace.
C6_MonotonicHits ==
    [][pc = "loop" =>
         \A i \in TraceIdx :
            i \in DOMAIN traces' /\ traces'[i].hits >= traces[i].hits]_vars

C6_Witness ==
    pc = "returned" /\ \E i \in TraceIdx : traces[i].hits = 2

\* C7: a Trace with no address gets no Breakpoint::new call, no breakpoint,
\* and has hits = 0 in every state.
C7_NoAddressStaysZero ==
    /\ \A i \in TraceIdx : traces[i].address = None => traces[i].hits = 0
    /\ \A a \in DOMAIN breakpoints : \E i \in TraceIdx : traces[i].address = Some(a)
    /\ \A k \in 1..Len(installs) :
          \E i \in TraceIdx : traces[i].address = Some(installs[k].addr)
    /\ Len(installs) <= Cardinality({i \in TraceIdx : traces[i].address # None})

C7_Witness ==
    /\ pc = "returned"
    /\ \E i \in TraceIdx : traces[i].address = None /\ traces[i].hits = 0
    /\ \A i \in TraceIdx : traces[i].address # None /\ i < 3 => traces[i].hits > 0

\* C8: when Breakpoint::new fails with EIO in init, the remediation message is
\* printed, that call is the last one, the tracee is not continued, the state
\* is Abort and collect_coverage exits without returning.
EIOInInit ==
    prev = "Initialise" /\ \E k \in 1..Len(installs) : installs[k].res = "EIO"

C8_EIOAborts ==
    /\ EIOInInit =>
         /\ state = St("Abort")
         /\ PrintPie \in out
         /\ installs[Len(installs)].res = "EIO"
         /\ DOMAIN breakpoints =
              {installs[k].addr : k \in {j \in 1..Len(installs) : installs[j].res = "Ok"}}
         /\ conts = {}
         /\ pc \in {"loop", "exited"}
         /\ pc = "exited" => PrintAbort \in out
    /\ state.tag = "Abort" => (EIOInInit /\ pc # "returned")

C8_Witness ==
    /\ pc = "exited"
    /\ Len(installs) = 2
    /\ installs[1].res = "Ok"
    /\ installs[2].res = "EIO"

\* C9: stop on Stopped(_, SIGSEGV) goes to Unrecoverable with the segfault
\* message and makes no continue_exec call, whatever forward_signals and the
\* thread.
C9_SegfaultIsFatal ==
    (prev = "Stopped" /\ wait.kind = "Stopped" /\ wait.sig = "SIGSEGV") =>
        /\ state = St("Unrecoverable")
        /\ error_message = Some(MsgSegfault)
        /\ conts = {}

C9_Witness ==
    /\ prev = "Stopped"
    /\ wait = Stopped(SpawnedPid, "SIGSEGV")
    /\ config.forward_signals
    /\ state = St("Unrecoverable")

\* C10 (as claimed): run returns Ok only if every get_test_coverage call ran
\* its test and every test run passed.
C10_RunContract ==
    run_result = "Ok" => (~not_run /\ ~failed_run)

\* C11 (as claimed): the argv of the executed test is the binary path, then
\* --ignored iff ignored, then --quiet iff not verbose, then every varargs
\* entry in order.
C11_ArgvExact ==
    exec_pc = "executed" =>
        argv = Some(<< test >>
                    \o (IF ignored THEN << IgnoredFlag >> ELSE << >>)
                    \o (IF ~config.verbose THEN << QuietFlag >> ELSE << >>)
                    \o varargs)

\* C12 (as claimed): error_message is Some(..) in every Unrecoverable state.
C12_DiagnosticAvailable ==
    state.tag = "Unrecoverable" => error_message # None

\* C13 (as claimed): when Breakpoint::process fails at a known breakpoint, the
\* thread is continued, no hits change and the next state is Wait.
C13_Original ==
    [][(/\ state.tag = "Stopped"
        /\ hit'.known
        /\ hit'.result = "failed") =>
            /\ \E ok \in BOOLEAN : conts' = {Cont(wait.pid, None, ok)}
            /\ traces' = traces
            /\ state' = wait_state]_vars

\* C13 (amended): when Breakpoint::process fails at a known breakpoint, the
\* thread is continued and no hits change; the next state is Wait when that
\* continue_exec succeeded, and Unrecoverable with the coverage error message
\* when it failed.
C13_FailedHitContinues ==
    [][(/\ state.tag = "Stopped"
        /\ hit'.known
        /\ hit'.result = "failed") =>
            /\ \E ok \in BOOLEAN :
                 /\ conts' = {Cont(wait.pid, None, ok)}
                 /\ ok => (state' = wait_state /\ error_message' = error_message)
                 /\ ~ok => /\ state' = St("Unrecoverable")
                           /\ error_message' = Some(MsgCoverageErr)
            /\ traces' = traces]_vars

C13_Witness ==
    /\ hit.known /\ hit.result = "failed"
    /\ conts = {Cont(hit.thread, None, TRUE)}
    /\ state = wait_state
    /\ breakpoints[hit.addr].fired
    /\ HitsAt(hit.addr) = 1

\* C14: an address clash in init sets no error message (only another Err
\* does), does not end the loop over the Traces, installs nothing, and leaves
\* the outcome of init to the other results: Abort iff some install failed
\* with EIO, else the tracee is continued and the state is Wait when that
\* continue_exec succeeded.
InstallRes(res) == {k \in 1..Len(installs) : installs[k].res = res}

ClashInInit == prev = "Initialise" /\ InstallRes("Clash") # {}

C14_ClashIgnored ==
    ClashInInit =>
        /\ error_message # None <=> InstallRes("Err") # {}
        /\ state = St("Abort") <=> InstallRes("EIO") # {}
        /\ DOMAIN breakpoints = {installs[k].addr : k \in InstallRes("Ok")}
        /\ InstallRes("EIO") = {} =>
             /\ Len(installs) =
                  Cardinality({i \in TraceIdx : traces[i].address # None})
             /\ \E ok \in BOOLEAN :
                  /\ conts = {Cont(parent, None, ok)}
                  /\ ok => state = wait_state
                  /\ ~ok => state = St("Unrecoverable")

C14_Witness ==
    /\ prev = "Initialise"
    /\ Len(installs) = 3
    /\ installs[1].res = "Clash"
    /\ installs[2].res = "Ok"
    /\ installs[3].res = "Clash"
    /\ state = wait_state
    /\ error_message = None
    /\ DOMAIN breakpoints = {32}

\* C15: with config.count false every Trace has hits 0 or 1 in every state,
\* whichever threads reach its address and however often.
C15_OneShotHits ==
    ~config.count => \A i \in TraceIdx : traces[i].hits \in {0, 1}

C15_Witness ==
    /\ ~config.count
    /\ hit.known /\ hit.result = "ok" /\ ~hit.fresh
    /\ hit.thread = SpawnedPid
    /\ HitsAt(hit.addr) = 1
    /\ SumHits(traces) = 1

\* C16: once the root thread has exited (its exit event or its exit status
\* was reported) the state machine reaches a terminal state, and in a terminal
\* state the loop takes no further step of the state machine.
C16_Terminates ==
    /\ (pc = "loop" /\ root # "running") ~> is_finished(state)
    /\ [][is_finished(state) =>
            /\ machine_vars' = machine_vars
            /\ pc' \in {"returned", "exited"}]_vars

C16_Witness ==
    /\ pc = "returned"
    /\ state.tag = "End"
    /\ root = "gone"
    /\ tracing
    /\ thread_count > 0

\* C17: stop on a Stopped status with a signal other than SIGTRAP, SIGSTOP and
\* SIGSEGV continues the stopped thread and returns Wait, whatever
\* continue_exec returned; the signal is handed to continue_exec iff
\* config.forward_signals. No continue_exec of a SIGTRAP, SIGSTOP or SIGSEGV
\* stop carries a signal.
AfterStopOn(kind) == prev = "Stopped" /\ wait.kind = kind

C17_ForwardIffConfigured ==
    AfterStopOn("Stopped") =>
        IF wait.sig \notin {"SIGTRAP", "SIGSTOP", "SIGSEGV"}
        THEN /\ state = wait_state
             /\ \E ok \in BOOLEAN :
                  conts = {Cont(wait.pid,
                                IF config.forward_signals
                                THEN Some(wait.sig) ELSE None, ok)}
        ELSE \A c \in conts : c.sig = None

C17_Witness ==
    /\ AfterStopOn("Stopped")
    /\ wait = Stopped(SpawnedPid, "SIGUSR1")
    /\ config.forward_signals
    /\ conts = {Cont(SpawnedPid, Some("SIGUSR1"), FALSE)}
    /\ state = wait_state

\* A step of stop on a SIGTRAP stop at a known breakpoint whose process call
\* reported a fresh hit.
FreshTrap ==
    /\ state.tag = "Stopped"
    /\ wait.kind = "Stopped"
    /\ wait.sig = "SIGTRAP"
    /\ hit'.known
    /\ hit'.addr \in DOMAIN breakpoints
    /\ hit'.fresh

\* Exactly the i-th Trace gained exactly one hit.
OneMoreHit(i) == traces' = [traces EXCEPT ![i].hits = @ + 1]

\* C18 (as claimed): a fresh trap adds exactly one hit to the Trace at its
\* address; every other transition leaves the hits of every Trace and the set
\* of breakpoints unchanged.
C18_Original ==
    [][pc = "loop" =>
         IF FreshTrap
         THEN \E i \in TraceIdx :
                 traces[i].address = Some(hit'.addr) /\ OneMoreHit(i)
         ELSE /\ traces' = traces
              /\ DOMAIN breakpoints' = DOMAIN breakpoints]_vars

\* C18 (amended): a fresh trap adds exactly one hit to the Trace at its
\* address; every other transition leaves the hits of every Trace unchanged,
\* and every transition but Initialise leaves the set of breakpoints unchanged.
C18_HitsFrame ==
    [][pc = "loop" =>
         /\ IF FreshTrap
            THEN \E i \in TraceIdx :
                    traces[i].address = Some(hit'.addr) /\ OneMoreHit(i)
            ELSE traces' = traces
         /\ state.tag # "Initialise" =>
              DOMAIN breakpoints' = DOMAIN breakpoints]_vars

C18_Witness ==
    /\ prev = "Stopped"
    /\ hit.known /\ hit.fresh /\ hit.addr = 32
    /\ traces[2].hits = 2
    /\ traces[1].hits = 0
    /\ DOMAIN breakpoints = {16, 32}

\* C19: stop on Exited(child, code) notifies every breakpoint of the death of
\* child; the state is End(code) iff child is the root thread, and else the
\* root is continued and the state is Wait whatever continue_exec returned.
C19_ExitedHandling ==
    AfterStopOn("Exited") =>
        /\ killed = {[addr |-> a, thread |-> wait.pid] : a \in DOMAIN breakpoints}
        /\ state.tag = "End" <=> wait.pid = parent
        /\ wait.pid = parent => (state = End(wait.code) /\ conts = {})
        /\ wait.pid # parent =>
             /\ state = wait_state
             /\ \E ok \in BOOLEAN : conts = {Cont(parent, None, ok)}

C19_Witness ==
    /\ AfterStopOn("Exited")
    /\ wait.pid = SpawnedPid
    /\ wait.code = 101
    /\ conts = {Cont(parent, None, FALSE)}
    /\ state = wait_state
    /\ Cardinality(killed) = 2

\* start has continued the thread of an unexpected wait status.
UnexpectedInStart == prev = "Start" /\ conts # {}

\* C20 (as claimed): an unexpected wait status in Start leaves the state
\* machine in Start.
C20_Original == UnexpectedInStart => state = St("Start")

\* C20 (amended): on an unexpected wait status in Start the thread is
\* continued; the state stays Start when that continue_exec succeeded and is
\* Unrecoverable when it failed.
C20_RetryIfContinued ==
    /\ UnexpectedInStart =>
         \E c \in conts :
            /\ conts = {c}
            /\ c.sig = None
            /\ c.ok => state = St("Start")
            /\ ~c.ok => state = St("Unrecoverable")
    /\ prev = "Start" => error_message = None /\ breakpoints = EmptyMap

C20_Witness ==
    /\ UnexpectedInStart
    /\ conts = {Cont(TestPid, None, TRUE)}
    /\ state = St("Start")
    /\ root = "running"

\* C21: every breakpoint address is the address of some Trace, and no step
\* of the state machine but init changes the set of breakpoint addresses, up
\* to and including the step that leaves the loop.
C21_BreakpointsAtTraces ==
    /\ [](\A a \in DOMAIN breakpoints :
             \E i \in TraceIdx : traces[i].address = Some(a))
    /\ [][(pc = "loop" /\ state.tag # "Initialise") =>
             DOMAIN breakpoints' = DOMAIN breakpoints]_vars
    /\ [][(pc = "loop" /\ state.tag \in {"Wait", "Stopped"}) =>
             state'.tag # "Initialise"]_vars

C21_Witness ==
    /\ pc = "returned"
    /\ state.tag = "End"
    /\ DOMAIN breakpoints = {16, 32}
    /\ \A a \in DOMAIN breakpoints : breakpoints[a].fired
    /\ thread_count = 1

\* C22: Abort is entered only by init; from Wait and Stopped the state machine
\* only reaches Wait, Stopped, End and Unrecoverable, and a run that ended
\* there returns from collect_coverage with the TraceMap as the last step of
\* the state machine left it; only Abort exits the engine.
C22_AbortOnlyFromInitialise ==
    /\ [][(pc = "loop" /\ state'.tag = "Abort") =>
             state.tag \in {"Initialise", "Abort"}]_vars
    /\ [][(pc = "loop" /\ state.tag \in {"Wait", "Stopped"}) =>
             state'.tag \in {"Wait", "Stopped", "End", "Unrecoverable"}]_vars
    /\ [][(pc = "loop" /\ state.tag \in {"End", "Unrecoverable"}) =>
             (pc' = "returned" /\ traces' = traces)]_vars
    /\ [](pc = "exited" => state.tag = "Abort")

C22_Witness ==
    /\ pc = "returned"
    /\ state.tag = "Unrecoverable"
    /\ error_message = Some(MsgSigstop)
    /\ SumHits(traces) = 2
    /\ PrintAbort \notin out

\* The indices of the Line Traces of line l in fcov.
LineTracesAt(fcov, l) ==
    {i \in 1..Len(fcov) : fcov[i].line = l /\ fcov[i].stats.kind = "Line"}

Last(S) == CHOOSE i \in S : \A j \in S : j <= i

\* C23: for every file of the report, a line is reported iff some Line Trace
\* of the file has it, and with the hits of the last such Trace in
\* get_child_traces order.
C23_LastTraceWins ==
    report # None =>
        \A f \in DOMAIN report[1].sources :
            LET fcov == get_child_traces(coverage_data, f)
                lines == report[1].sources[f]
            IN /\ DOMAIN lines = {l \in CovLines : LineTracesAt(fcov, l) # {}}
               /\ \A l \in DOMAIN lines :
                     lines[l] = fcov[Last(LineTracesAt(fcov, l))].stats.hits

C23_Witness ==
    /\ export_result = "Ok"
    /\ coverage_data = << CovTrace("a.rs", 1, LineStat(2)),
                          CovTrace("a.rs", 1, LineStat(0)) >>
    /\ "a.rs" \in DOMAIN report[1].sources
    /\ report[1].sources["a.rs"][1] = 0

====
